---- MODULE Spec2Model ----
(***************************************************************************)
(* derive-error-kind: the derive macro ErrorKind (src/src/lib.rs).         *)
(*                                                                         *)
(* The macro receives the declaration of a type, reads its #[error_kind]   *)
(* attributes and emits `impl Name { pub fn kind(&self) -> K { match .. }}`.*)
(* The model follows error_kind_macro statement by statement: get_kind_ty, *)
(* the match on input.data, one iteration of the loop over the variants    *)
(* per step, and the synthesis of the method.  A panic of the macro ends   *)
(* the expansion of that declaration with the panic message.               *)
(***************************************************************************)
EXTENDS Naturals, Sequences, FiniteSets, TLC

VARIABLES crate, cur, pc, kind_ty, kind_variants, i, out

vars == <<crate, cur, pc, kind_ty, kind_variants, i, out>>

----------------------------------------------------------------------------
(* Bounds of the declarations explored.                                    *)

MaxVariants == 2
MaxAttrs == 2
MaxDecls == 3

----------------------------------------------------------------------------
(* Option<T>, Result of a step that may panic.                             *)

None == <<>>
Some(x) == <<x>>

Ok(v) == [panic |-> FALSE, msg |-> "", val |-> v]
Panic(m) == [panic |-> TRUE, msg |-> m, val |-> None]

----------------------------------------------------------------------------
(* syn's view of the input.  A NestedMeta is Meta(Path), Meta(List),       *)
(* or Lit; an Attribute has a path and parses (parse_meta) to a Meta::Path *)
(* or to a Meta::List with nested arguments.                               *)

P(id) == [nm |-> "Path", ident |-> id]
Lit == [nm |-> "Lit", ident |-> ""]
NList == [nm |-> "List", ident |-> "cfg"]

ListAttr(path, nested) == [path |-> path, meta |-> "List", nested |-> nested]
WordAttr(path) == [path |-> path, meta |-> "Path", nested |-> <<>>]

\* path.is_ident(name)
is_ident(path, name) == path = name

\* metas.iter().next() / kind_variants.first()
first(s) == IF Len(s) = 0 THEN None ELSE Some(s[1])

----------------------------------------------------------------------------
(* find_attribute: the nested arguments of the first attribute that parses *)
(* as a list and whose path is `name`.                                     *)

find_attribute(definition, name) ==
    LET hits == {k \in 1..Len(definition.attrs) :
                    /\ definition.attrs[k].meta = "List"
                    /\ is_ident(definition.attrs[k].path, name)}
    IN  IF hits = {} THEN None
        ELSE Some(definition.attrs[CHOOSE k \in hits : \A l \in hits : k <= l].nested)

(* get_kind_ty: the first argument of the type-level attribute, which must *)
(* be a path.                                                              *)

get_kind_ty(input) ==
    LET metas == find_attribute(input, "error_kind")
    IN  IF metas = None
        THEN Panic("#[derive(ErrorKind)] requires error_kind attribute")
        ELSE LET next == first(metas[1])
             IN  IF next # None /\ next[1].nm = "Path"
                 THEN Ok(next[1].ident)
                 ELSE Panic("#[error_kind(KIND_IDENT)] attribute requires and identifier")

----------------------------------------------------------------------------
(* The body of the loop over the variants (lines 133-170): the entries     *)
(* pushed to kind_variants for one variant, or the panic.                  *)

\* faulty variant of find_error_kind_attr: the last attribute of the family
find_error_kind_attr_last(attrs) ==
    LET hits == {k \in 1..Len(attrs) : is_ident(attrs[k].path, "error_kind")}
    IN  IF hits = {} THEN None
        ELSE Some(attrs[CHOOSE k \in hits : \A l \in hits : l <= k])

\* variant.attrs.into_iter().find(|attr| attr.path.is_ident("error_kind"))
find_error_kind_attr(attrs) ==
    LET hits == {k \in 1..Len(attrs) : is_ident(attrs[k].path, "error_kind")}
    IN  IF hits = {} THEN None
        ELSE Some(attrs[CHOOSE k \in hits : \A l \in hits : k <= l])

\* the plan entry (ident, enum_ty, variant)
Entry(ident, enum_ty, variant) ==
    [ident |-> ident, enum_ty |-> enum_ty, variant |-> variant]

\* faulty variant of read_one_argument: a path other than transparent is rejected
read_one_argument_strict(ident, sub_meta, kty) ==
    IF sub_meta.nm = "Path"
    THEN IF is_ident(sub_meta.ident, "transparent")
         THEN Ok(<<Entry(ident, kty, None)>>)
         ELSE Panic("Invalid value for #[error_kind]")
    ELSE Panic("Invalid value for #[error_kind]")

\* lines 152-160: a single nested argument
read_one_argument(ident, sub_meta, kty) ==
    IF sub_meta.nm = "Path"
    THEN IF is_ident(sub_meta.ident, "transparent")
         THEN Ok(<<Entry(ident, kty, None)>>)
         ELSE Ok(<<>>)
    ELSE Panic("Invalid value for #[error_kind]")

\* lines 140-166: the attribute found on the variant
\* faulty variant of read_meta: the kind enum and its variant are swapped
read_meta_swapped(ident, attr, kty) ==
    IF attr.meta = "List"
    THEN IF Len(attr.nested) = 2
         THEN IF attr.nested[1].nm = "Path" /\ attr.nested[2].nm = "Path"
              THEN Ok(<<Entry(ident, attr.nested[2].ident, Some(attr.nested[1].ident))>>)
              ELSE Panic("Invalid value for error_kind")
         ELSE IF Len(attr.nested) = 1
              THEN read_one_argument(ident, attr.nested[1], kty)
              ELSE Panic("error_kind must have one two arguments")
    ELSE Panic("Error parsing meta")

\* faulty variant of read_meta: >= 2 for == 2, arguments after the second are ignored
read_meta_ge2(ident, attr, kty) ==
    IF attr.meta = "List"
    THEN IF Len(attr.nested) >= 2
         THEN IF attr.nested[1].nm = "Path" /\ attr.nested[2].nm = "Path"
              THEN Ok(<<Entry(ident, attr.nested[1].ident, Some(attr.nested[2].ident))>>)
              ELSE Panic("Invalid value for error_kind")
         ELSE IF Len(attr.nested) = 1
              THEN read_one_argument(ident, attr.nested[1], kty)
              ELSE Panic("error_kind must have one two arguments")
    ELSE Panic("Error parsing meta")

read_meta(ident, attr, kty) ==
    IF attr.meta = "List"
    THEN IF Len(attr.nested) = 2
         THEN IF attr.nested[1].nm = "Path" /\ attr.nested[2].nm = "Path"
              THEN Ok(<<Entry(ident, attr.nested[1].ident, Some(attr.nested[2].ident))>>)
              ELSE Panic("Invalid value for error_kind")
         ELSE IF Len(attr.nested) = 1
              THEN read_one_argument(ident, attr.nested[1], kty)
              ELSE Panic("error_kind must have one two arguments")
    ELSE Panic("Error parsing meta")

\* lines 134-169: one variant
read_variant(variant, kty) ==
    LET attr == find_error_kind_attr(variant.attrs)
    IN  IF attr # None
        THEN read_meta(variant.ident, attr[1], kty)
        ELSE Panic("Enum variants must have the attribute error_kind")

----------------------------------------------------------------------------
(* The method synthesizer (lines 172-209).                                 *)

Unit == [shape |-> "Unit", tys |-> <<>>]
Named(tys) == [shape |-> "Named", tys |-> tys]
Unnamed(tys) == [shape |-> "Unnamed", tys |-> tys]

\* one arm of the generated match: the pattern, and the expression, which
\* is either the path #enum_ty::#variant or the call inner.kind()
PathArm(ident, pat, enum_ty, variant) ==
    [ident |-> ident, pat |-> pat, inner_kind |-> FALSE,
     enum_ty |-> enum_ty, variant |-> variant]
InnerArm(ident) ==
    [ident |-> ident, pat |-> "Self::#ident(inner)", inner_kind |-> TRUE,
     enum_ty |-> "", variant |-> None]

\* variants.iter().find(|v| v.ident == ident).unwrap().fields
fields_of(vs, ident) ==
    LET hits == {k \in 1..Len(vs) : vs[k].ident = ident}
    IN  vs[CHOOSE k \in hits : \A l \in hits : k <= l].fields

\* faulty variant of match_arm: unnamed fields never delegate to inner.kind()
match_arm_no_delegate(vs, entry) ==
    LET fields == fields_of(vs, entry.ident)
    IN  CASE fields.shape = "Unit" ->
                PathArm(entry.ident, "Self::#ident", entry.enum_ty, entry.variant)
          [] fields.shape = "Named" ->
                PathArm(entry.ident, "Self::#ident{..}", entry.enum_ty, entry.variant)
          [] fields.shape = "Unnamed" ->
                PathArm(entry.ident, "Self::#ident(..)", entry.enum_ty, entry.variant)

\* faulty variant of match_arm: the resolution is looked at before the fields
match_arm_variant_first(vs, entry) ==
    LET fields == fields_of(vs, entry.ident)
    IN  IF entry.variant = None THEN InnerArm(entry.ident)
        ELSE CASE fields.shape = "Unit" ->
                    PathArm(entry.ident, "Self::#ident", entry.enum_ty, entry.variant)
              [] fields.shape = "Named" ->
                    PathArm(entry.ident, "Self::#ident{..}", entry.enum_ty, entry.variant)
              [] fields.shape = "Unnamed" ->
                    PathArm(entry.ident, "Self::#ident(..)", entry.enum_ty, entry.variant)

\* lines 177-199: the closure mapped over kind_variants
match_arm(vs, entry) ==
    LET fields == fields_of(vs, entry.ident)
    IN  CASE fields.shape = "Unit" ->
                PathArm(entry.ident, "Self::#ident", entry.enum_ty, entry.variant)
          [] fields.shape = "Named" ->
                PathArm(entry.ident, "Self::#ident{..}", entry.enum_ty, entry.variant)
          [] fields.shape = "Unnamed" ->
                IF entry.variant # None
                THEN PathArm(entry.ident, "Self::#ident(..)", entry.enum_ty, entry.variant)
                ELSE InnerArm(entry.ident)

\* faulty variant of kind_enum_of: the kind enum of the last entry of the plan
kind_enum_of_last(plan) ==
    IF Len(plan) = 0 THEN Panic("No variants in Enum") ELSE Ok(plan[Len(plan)].enum_ty)

\* lines 172-176: the return type of the generated method
kind_enum_of(plan) ==
    LET e == first(plan)
    IN  IF e = None THEN Panic("No variants in Enum") ELSE Ok(e[1].enum_ty)

\* lines 172-211
synthesize(ident, vs, plan) ==
    LET kind_enum == kind_enum_of(plan)
    IN  IF kind_enum.panic THEN kind_enum
        ELSE Ok([name |-> ident,
                 kind_enum |-> kind_enum.val,
                 match_arms |-> [k \in 1..Len(plan) |-> match_arm(vs, plan[k])]])

----------------------------------------------------------------------------
(* The state machine.  crate is the sequence of declarations carrying      *)
(* #[derive(ErrorKind)]; the compiler expands them one after the other,    *)
(* each expansion independent of the others.  out[k] is what the k-th      *)
(* expansion returned: the generated impl, or the panic.                   *)

input == crate[cur]
name == input.ident
variants == input.variants

Expanded(tokens) == [status |-> "ok", msg |-> "", expanded |-> Some(tokens)]
Aborted(msg) == [status |-> "panic", msg |-> msg, expanded |-> None]

\* the expansion of the current declaration ends; the next one starts
Return(result) ==
    /\ out' = Append(out, result)
    /\ cur' = cur + 1
    /\ pc' = IF cur < Len(crate) THEN "get_kind_ty" ELSE "done"

\* line 122
GetKindTy ==
    /\ pc = "get_kind_ty"
    /\ LET r == get_kind_ty(input)
       IN  IF r.panic
           THEN /\ Return(Aborted(r.msg))
                /\ UNCHANGED <<kind_ty, kind_variants, i>>
           ELSE /\ kind_ty' = r.val
                /\ pc' = "data"
                /\ UNCHANGED <<cur, kind_variants, i, out>>
    /\ UNCHANGED crate

\* faulty variant of MatchData: the data of the input is not looked at
MatchData_unchecked ==
    /\ pc = "data"
    /\ kind_variants' = <<>>
    /\ i' = 1
    /\ pc' = "loop"
    /\ UNCHANGED <<crate, cur, kind_ty, out>>

\* lines 124-131
MatchData ==
    /\ pc = "data"
    /\ IF input.data = "Enum"
       THEN /\ kind_variants' = <<>>
            /\ i' = 1
            /\ pc' = "loop"
            /\ UNCHANGED <<cur, out>>
       ELSE /\ Return(Aborted("ImplKind just can be used in enums"))
            /\ UNCHANGED <<kind_variants, i>>
    /\ UNCHANGED <<crate, kind_ty>>

\* lines 133-170: one iteration of the loop
ReadVariant ==
    /\ pc = "loop"
    /\ i <= Len(variants)
    /\ LET r == read_variant(variants[i], kind_ty)
       IN  IF r.panic
           THEN /\ Return(Aborted(r.msg))
                /\ UNCHANGED <<kind_variants, i>>
           ELSE /\ kind_variants' = kind_variants \o r.val
                /\ i' = i + 1
                /\ UNCHANGED <<cur, pc, out>>
    /\ UNCHANGED <<crate, kind_ty>>

\* lines 172-211, after the loop
Synthesize ==
    /\ pc = "loop"
    /\ i > Len(variants)
    /\ LET r == synthesize(name, variants, kind_variants)
       IN  IF r.panic
           THEN Return(Aborted(r.msg))
           ELSE Return(Expanded(r.val))
    /\ UNCHANGED <<crate, kind_ty, kind_variants, i>>

Next == GetKindTy \/ MatchData \/ ReadVariant \/ Synthesize

----------------------------------------------------------------------------
(* The generated code at run time.  The impl emitted for a type is         *)
(*     impl #name { pub fn kind(&self) -> #kind_enum {                     *)
(*         match self { #(#match_arms)* } } }                              *)
(* A value is a variant of a declared enum with its field values, or a     *)
(* String.                                                                 *)

\* the declaration of the type called ty, if the crate has one
decl_of(ty) ==
    LET ks == {k \in 1..Len(crate) : crate[k].ident = ty}
    IN  IF ks = {} THEN None ELSE Some(crate[CHOOSE k \in ks : TRUE])

\* the impl emitted for the type called ty, if its expansion succeeded
method_of(ty) ==
    LET ks == {k \in 1..Len(out) : crate[k].ident = ty /\ out[k].status = "ok"}
    IN  IF ks = {} THEN None ELSE out[CHOOSE k \in ks : TRUE].expanded

\* the pattern of an arm type-checks against the fields of its variant
ArmFits(arm, fields) ==
    CASE arm.pat = "Self::#ident" -> fields.shape = "Unit"
      [] arm.pat = "Self::#ident{..}" -> TRUE
      [] arm.pat = "Self::#ident(..)" -> fields.shape = "Unnamed"
      [] arm.pat = "Self::#ident(inner)" ->
            fields.shape = "Unnamed" /\ Len(fields.tys) = 1

\* the expression of an arm parses: #enum_ty::#variant with no #variant is
\* the incomplete path `K::`
ExprParses(arm) == arm.inner_kind \/ arm.variant # None

RECURSIVE Builds(_, _)
\* the impl of ty compiles: every arm is well-formed, the match is exhaustive, and
\* every inner.kind() resolves to a method that compiles (fuel bounds the nesting)
Builds(ty, fuel) ==
    /\ fuel > 0
    /\ decl_of(ty) # None
    /\ method_of(ty) # None
    /\ LET decl == decl_of(ty)[1]
           arms == method_of(ty)[1].match_arms
       IN  /\ \A k \in 1..Len(arms) :
                LET fields == fields_of(decl.variants, arms[k].ident)
                IN  /\ ArmFits(arms[k], fields)
                    /\ ExprParses(arms[k])
                    /\ arms[k].inner_kind => Builds(fields.tys[1], fuel - 1)
           /\ \A j \in 1..Len(decl.variants) :
                \E k \in 1..Len(arms) : arms[k].ident = decl.variants[j].ident

RECURSIVE kind(_)
\* self.kind(): the expression of the first arm whose pattern matches self;
\* None when the type has no kind method that compiles
kind(self) ==
    IF ~Builds(self.ty, Len(crate)) THEN None
    ELSE LET arms == method_of(self.ty)[1].match_arms
             hits == {k \in 1..Len(arms) : arms[k].ident = self.variant}
             arm == arms[CHOOSE k \in hits : \A l \in hits : k <= l]
         IN  IF arm.inner_kind
             THEN kind(self.fields[1])
             ELSE Some(<<arm.enum_ty, arm.variant[1]>>)

StringValues == {"a", "b"}

RECURSIVE Values(_, _)
\* the values of the type called ty, nested at most depth enums deep
Values(ty, depth) ==
    IF ty = "String"
    THEN {[ty |-> "String", variant |-> 0, fields |-> <<>>, data |-> d] :
            d \in StringValues}
    ELSE IF depth = 0 \/ decl_of(ty) = None THEN {}
    ELSE LET vs == decl_of(ty)[1].variants
         IN  UNION { LET tys == vs[j].fields.tys
                         all == UNION {Values(tys[n], depth - 1) : n \in 1..Len(tys)}
                     IN  {[ty |-> ty, variant |-> vs[j].ident, fields |-> f, data |-> ""] :
                            f \in {g \in [1..Len(tys) -> all] :
                                     \A n \in 1..Len(tys) :
                                        g[n] \in Values(tys[n], depth - 1)}}
                   : j \in 1..Len(vs) }

----------------------------------------------------------------------------
(* The declarations explored.                                              *)

\* sequences over S of length at most n
SeqsUpTo(S, n) == UNION {[1..k -> S] : k \in 0..n}

ErrorKindAttr(nested) == ListAttr("error_kind", nested)
\* an attribute of another family, e.g. #[error("...")] of thiserror
OtherAttr == ListAttr("error", <<Lit>>)

Direct(K, V) == ErrorKindAttr(<<P(K), P(V)>>)
Transparent == ErrorKindAttr(<<P("transparent")>>)

\* the forms of #[error_kind ...] on a variant
VariantAttrForms ==
    { Direct("ErrorKind", "NotFound"),
      Direct("Other", "InvalidInput"),
      Transparent,
      ErrorKindAttr(<<P("NotFound")>>),
      ErrorKindAttr(<<Lit>>),
      ErrorKindAttr(<<NList>>),
      ErrorKindAttr(<<>>),
      ErrorKindAttr(<<P("ErrorKind"), Lit>>),
      ErrorKindAttr(<<Lit, P("NotFound")>>),
      ErrorKindAttr(<<P("ErrorKind"), P("NotFound"), P("InvalidInput")>>),
      WordAttr("error_kind") }

\* the forms of the attributes on the type
TypeAttrForms ==
    { ErrorKindAttr(<<P("ErrorKind")>>),
      ErrorKindAttr(<<P("ErrorKind"), P("Other")>>),
      ErrorKindAttr(<<>>),
      ErrorKindAttr(<<Lit>>),
      ErrorKindAttr(<<Lit, P("ErrorKind")>>),
      WordAttr("error_kind"),
      OtherAttr }

FieldsSet ==
    { Unit, Named(<<"String">>), Unnamed(<<>>), Unnamed(<<"String">>),
      Unnamed(<<"String", "String">>) }

\* the variants of an enum are named 1, 2, ... in declaration order: the
\* names of the variants of an enum are distinct
NameVariants(bodies) ==
    [k \in 1..Len(bodies) |->
        [ident |-> k, attrs |-> bodies[k].attrs, fields |-> bodies[k].fields]]

Enum(ident, attrs, bodies) ==
    [ident |-> ident, data |-> "Enum", attrs |-> attrs,
     variants |-> NameVariants(bodies)]

\* a struct or a union has fields, no variants
NotEnum(ident, data, attrs) ==
    [ident |-> ident, data |-> data, attrs |-> attrs, variants |-> <<>>]

Start(c) ==
    /\ crate = c
    /\ cur = 1
    /\ pc = "get_kind_ty"
    /\ kind_ty = ""
    /\ kind_variants = <<>>
    /\ i = 0
    /\ out = <<>>

(* Spec: one enum with a well-formed #[error_kind(K)]; every variant has   *)
(* at most one attribute, of any form, and fields of any shape.            *)

VariantBodies ==
    [attrs : {<<>>} \cup {<<a>> : a \in VariantAttrForms \cup {OtherAttr}},
     fields : FieldsSet]

Decls(n) ==
    { Enum("MyError", <<ErrorKindAttr(<<P("ErrorKind")>>)>>, bodies) :
        bodies \in SeqsUpTo(VariantBodies, n) }

Init == \E d \in Decls(MaxVariants) : Start(<<d>>)

Spec == Init /\ [][Next]_vars

(* SpecType: an enum, a struct or a union, with up to MaxAttrs attributes  *)
(* of any form on the type; the variants of an enum are few.               *)

TypeVariantBodies ==
    { [attrs |-> <<Direct("ErrorKind", "NotFound")>>, fields |-> Unit],
      [attrs |-> <<Transparent>>, fields |-> Unnamed(<<"String">>)],
      [attrs |-> <<>>, fields |-> Unit] }

TypeDecls(n, m) ==
    { Enum("MyError", attrs, bodies) :
        attrs \in SeqsUpTo(TypeAttrForms, m),
        bodies \in SeqsUpTo(TypeVariantBodies, n) }
    \cup
    { NotEnum("MyError", data, attrs) :
        data \in {"Struct", "Union"}, attrs \in SeqsUpTo(TypeAttrForms, m) }

InitType == \E d \in TypeDecls(MaxVariants, MaxAttrs) : Start(<<d>>)

SpecType == InitType /\ [][Next]_vars

(* SpecAttrs: one enum whose unit variants carry up to MaxAttrs attributes *)
(* each.                                                                   *)

AttrsVariantBodies(m) ==
    [attrs : SeqsUpTo({ Direct("ErrorKind", "NotFound"), Transparent,
                        ErrorKindAttr(<<>>), OtherAttr }, m),
     fields : {Unit}]

AttrsDecls(n, m) ==
    { Enum("MyError", <<ErrorKindAttr(<<P("ErrorKind")>>)>>, bodies) :
        bodies \in SeqsUpTo(AttrsVariantBodies(m), n) }

InitAttrs == \E d \in AttrsDecls(MaxVariants, MaxAttrs) : Start(<<d>>)

SpecAttrs == InitAttrs /\ [][Next]_vars

(* SpecNest: up to MaxDecls enums of two variants each; a variant of the   *)
(* enum E(n+1) may wrap a value of the enum E(n), as ServiceError wraps    *)
(* CacheError in the documentation of the macro.                           *)

TypeNames == <<"CacheError", "ServiceError", "AppError", "TopError", "RootError">>

TypeName(n) == IF n = 0 THEN "String" ELSE TypeNames[n]

\* the first variant of E(n) is direct or wraps E(n-1); so is the second
NestFirst(n) ==
    { [attrs |-> <<Direct("ErrorType", "A")>>, fields |-> Unit],
      [attrs |-> <<Transparent>>, fields |-> Unnamed(<<TypeName(n - 1)>>)] }

NestSecond(n) ==
    { [attrs |-> <<Direct("ErrorType", v)>>, fields |-> Unit] : v \in {"B", "C"} }
    \cup
    { [attrs |-> <<Transparent>>, fields |-> Unnamed(<<TypeName(n - 1)>>)] }

NestEnums(n) ==
    { Enum(TypeName(n), <<ErrorKindAttr(<<P("ErrorType")>>)>>, <<x, y>>) :
        x \in NestFirst(n), y \in NestSecond(n) }

RECURSIVE CratesOfLen(_)
CratesOfLen(len) ==
    IF len = 0 THEN {<<>>}
    ELSE {Append(c, e) : c \in CratesOfLen(len - 1), e \in NestEnums(len)}

NestCrates(n) == UNION {CratesOfLen(len) : len \in 1..n}

InitNest == \E c \in NestCrates(MaxDecls) : Start(c)

SpecNest == InitNest /\ [][Next]_vars

----------------------------------------------------------------------------
(* The annotations of a declaration as they are written, for the           *)
(* statements below.                                                       *)

\* the positions of the #[error_kind ...] attributes among attrs
Family(attrs) == {n \in 1..Len(attrs) : attrs[n].path = "error_kind"}

\* the error_kind attribute of a variant or type that has exactly one
Sole(attrs) == attrs[CHOOSE n \in Family(attrs) : TRUE]

HasSole(attrs) == Cardinality(Family(attrs)) = 1

IsList(a, len) == a.meta = "List" /\ Len(a.nested) = len

\* #[error_kind(K, V)], both paths
AnnotatedDirect(v) ==
    /\ HasSole(v.attrs)
    /\ IsList(Sole(v.attrs), 2)
    /\ Sole(v.attrs).nested[1].nm = "Path"
    /\ Sole(v.attrs).nested[2].nm = "Path"

DirectK(v) == Sole(v.attrs).nested[1].ident
DirectV(v) == Sole(v.attrs).nested[2].ident

\* #[error_kind(transparent)]
AnnotatedTransparent(v) ==
    /\ HasSole(v.attrs)
    /\ IsList(Sole(v.attrs), 1)
    /\ Sole(v.attrs).nested[1] = P("transparent")

\* #[error_kind(x)], x anything but the identifier transparent
AnnotatedOneOther(v) ==
    /\ HasSole(v.attrs)
    /\ IsList(Sole(v.attrs), 1)
    /\ Sole(v.attrs).nested[1] # P("transparent")

\* #[error_kind(p)], p a path other than transparent
AnnotatedOtherPath(v) ==
    /\ AnnotatedOneOther(v)
    /\ Sole(v.attrs).nested[1].nm = "Path"

\* no error_kind attribute, or one with zero or with three or more
\* arguments, or one with two arguments that are not both paths
BadlyAnnotated(v) ==
    \/ Family(v.attrs) = {}
    \/ /\ HasSole(v.attrs)
       /\ \/ Sole(v.attrs).meta # "List"
          \/ Len(Sole(v.attrs).nested) = 0
          \/ Len(Sole(v.attrs).nested) >= 3
          \/ /\ Len(Sole(v.attrs).nested) = 2
             /\ \/ Sole(v.attrs).nested[1].nm # "Path"
                \/ Sole(v.attrs).nested[2].nm # "Path"

\* the declarations whose expansion has returned
Returned == 1..Len(out)

\* a value of the variant v of the type d with the fields f
ValueOf(d, v, f) == [ty |-> d.ident, variant |-> v.ident, fields |-> f, data |-> ""]

\* the variant a value was built as
VariantOf(self) ==
    LET vs == decl_of(self.ty)[1].variants
    IN  vs[CHOOSE j \in 1..Len(vs) : vs[j].ident = self.variant]

----------------------------------------------------------------------------
(* C1.  For an enum all of whose variants carry #[error_kind(K, V)], the   *)
(* generated kind() returns, on every value built as the variant v, the    *)
(* K::V written on v, whatever the shape of v and whatever its fields hold.*)

\* C1: when every variant is annotated #[error_kind(K, V)], kind() on every value
\* of the enum is the K::V of the value's variant, whatever its fields
C1_DirectKind ==
    \A k \in Returned :
        (\A j \in 1..Len(crate[k].variants) : AnnotatedDirect(crate[k].variants[j]))
        => \A self \in Values(crate[k].ident, 1) :
              kind(self) = Some(<<DirectK(VariantOf(self)), DirectV(VariantOf(self))>>)

\* a unit variant and a named-field variant with the same (K, V), and their kinds
C1_Witness ==
    /\ pc = "done"
    /\ Len(crate[1].variants) = 2
    /\ crate[1].variants[1].fields = Unit
    /\ crate[1].variants[2].fields = Named(<<"String">>)
    /\ \A j \in 1..2 : crate[1].variants[j].attrs = <<Direct("ErrorKind", "NotFound")>>
    /\ \A self \in Values("MyError", 1) : kind(self) = Some(<<"ErrorKind", "NotFound">>)
    /\ Cardinality(Values("MyError", 1)) = 3

----------------------------------------------------------------------------
(* C2.  Transparency: on a value of a variant annotated                    *)
(* #[error_kind(transparent)] that wraps one unnamed field, kind() returns *)
(* what kind() returns on the wrapped value; through any number of         *)
(* transparent wrappers it is the K::V of the innermost variant, which is  *)
(* annotated #[error_kind(K, V)].                                          *)

RECURSIVE Innermost(_)
\* the value reached by unwrapping the transparent variants
Innermost(self) ==
    IF AnnotatedTransparent(VariantOf(self)) /\ Len(self.fields) = 1
                                             /\ self.fields[1].ty # "String"
    THEN Innermost(self.fields[1])
    ELSE self

\* C2: kind() of a transparent wrapper of one field is kind() of the wrapped value,
\* and through any nesting the K::V of the innermost, directly annotated variant
C2_Transparency ==
    pc = "done" =>
        \A k \in 1..Len(crate) :
            /\ \A j \in 1..Len(crate[k].variants) :
                  LET v == crate[k].variants[j]
                  IN  (AnnotatedTransparent(v) /\ v.fields.shape = "Unnamed"
                                               /\ Len(v.fields.tys) = 1)
                      => \A w \in Values(v.fields.tys[1], Len(crate)) :
                            kind(w) # None
                            => kind(ValueOf(crate[k], v, <<w>>)) = kind(w)
            /\ \A self \in Values(crate[k].ident, Len(crate)) :
                  kind(self) # None
                  => /\ AnnotatedDirect(VariantOf(Innermost(self)))
                     /\ kind(self) = Some(<<DirectK(VariantOf(Innermost(self))),
                                            DirectV(VariantOf(Innermost(self)))>>)

\* the example of the documentation, and one more level of wrapping around it
C2_Witness ==
    /\ pc = "done"
    /\ Len(crate) = 3
    /\ LET missing == [ty |-> "CacheError", variant |-> 2, fields |-> <<>>, data |-> ""]
           cache == [ty |-> "ServiceError", variant |-> 1, fields |-> <<missing>>, data |-> ""]
           db == [ty |-> "ServiceError", variant |-> 2, fields |-> <<>>, data |-> ""]
           app == [ty |-> "AppError", variant |-> 1, fields |-> <<cache>>, data |-> ""]
       IN  /\ crate[1].variants[2].fields = Unit
           /\ crate[2].variants[2].fields = Unit
           /\ AnnotatedTransparent(crate[2].variants[1])
           /\ AnnotatedTransparent(crate[3].variants[1])
           /\ kind(missing) = Some(<<"ErrorType", "B">>)
           /\ kind(cache) = Some(<<"ErrorType", "B">>)
           /\ kind(db) = Some(<<"ErrorType", "C">>)
           /\ kind(app) = Some(<<"ErrorType", "B">>)

----------------------------------------------------------------------------
(* C3.  A declaration whose type-level #[error_kind(...)] is absent, or    *)
(* has zero arguments, or has two or more arguments, or has a first        *)
(* argument that is not a path, is rejected: no kind() is emitted.         *)

BadTypeAnnotation(d) ==
    \/ Family(d.attrs) = {}
    \/ /\ HasSole(d.attrs)
       /\ \/ Sole(d.attrs).meta # "List"
          \/ Len(Sole(d.attrs).nested) = 0
          \/ Len(Sole(d.attrs).nested) >= 2
          \/ Sole(d.attrs).nested[1].nm # "Path"

\* C3: a type-level annotation that is absent, or has zero or two or more
\* arguments, or a first argument that is no path, makes the expansion fail
C3_Original ==
    \A k \in Returned :
        BadTypeAnnotation(crate[k])
        => out[k].status = "panic" /\ out[k].expanded = None

----------------------------------------------------------------------------
(* C4.  An enum with a well-formed type-level annotation, one of whose     *)
(* variants, at any position, has no error_kind annotation, or one with    *)
(* zero or with three or more arguments, or one with two arguments that    *)
(* are not both paths, is rejected: no kind() is emitted, whatever the     *)
(* other variants carry.                                                   *)

\* C4: a variant that is not annotated, or annotated with zero or three or more
\* arguments, or with two arguments not both paths, makes the expansion fail
C4_VariantRejected ==
    \A k \in Returned :
        (\E j \in 1..Len(crate[k].variants) : BadlyAnnotated(crate[k].variants[j]))
        => out[k].status = "panic" /\ out[k].expanded = None

\* the second variant has three arguments, the first is well annotated
C4_Witness ==
    /\ pc = "done"
    /\ Len(crate[1].variants) = 2
    /\ AnnotatedDirect(crate[1].variants[1])
    /\ HasSole(crate[1].variants[2].attrs)
    /\ IsList(Sole(crate[1].variants[2].attrs), 3)
    /\ out = <<Aborted("error_kind must have one two arguments")>>

----------------------------------------------------------------------------
(* C5.  A struct or a union is rejected.  As claimed: always with the      *)
(* failure that names the enums-only restriction.  As amended: with that   *)
(* failure when the first list-form error_kind attribute of the type has a *)
(* path as its first argument, and with the failure of get_kind_ty         *)
(* otherwise, since the type-level annotation is read first.               *)

EnumsOnly == "ImplKind just can be used in enums"

\* the type-level annotation get_kind_ty accepts: the first error_kind
\* attribute in list form starts with a path
KindAnnotated(d) ==
    \E n \in Family(d.attrs) :
        /\ d.attrs[n].meta = "List"
        /\ \A m \in Family(d.attrs) : m < n => d.attrs[m].meta # "List"
        /\ Len(d.attrs[n].nested) >= 1
        /\ d.attrs[n].nested[1].nm = "Path"

\* C5 as claimed: a struct or union always fails with the enums-only message
C5_Original ==
    \A k \in Returned :
        crate[k].data # "Enum" => out[k] = Aborted(EnumsOnly)

\* C5 as amended: a struct or union always fails; with the enums-only message when
\* get_kind_ty accepts its type-level annotation, with get_kind_ty's message otherwise
C5_NonEnumRejected ==
    \A k \in Returned :
        crate[k].data # "Enum"
        => /\ out[k].status = "panic"
           /\ out[k].expanded = None
           /\ KindAnnotated(crate[k]) => out[k].msg = EnumsOnly
           /\ ~KindAnnotated(crate[k])
              => out[k].msg \in
                    {"#[derive(ErrorKind)] requires error_kind attribute",
                     "#[error_kind(KIND_IDENT)] attribute requires and identifier"}

\* a struct with #[error_kind(ErrorKind)], rejected as not an enum
C5_Witness ==
    /\ pc = "done"
    /\ crate[1].data = "Struct"
    /\ crate[1].attrs = <<ErrorKindAttr(<<P("ErrorKind")>>)>>
    /\ out = <<Aborted(EnumsOnly)>>

----------------------------------------------------------------------------
(* C6.  Whenever generation succeeds, the generated match has exactly one  *)
(* arm for each declared variant, in declaration order.                    *)

\* C6: a successful expansion has one arm per declared variant, in declaration order
C6_Original ==
    \A k \in Returned :
        out[k].status = "ok"
        => LET arms == out[k].expanded[1].match_arms
               vs == crate[k].variants
           IN  /\ Len(arms) = Len(vs)
               /\ \A j \in 1..Len(vs) : arms[j].ident = vs[j].ident

----------------------------------------------------------------------------
(* C7.  Whenever generation succeeds, the return type of kind() is the K   *)
(* written on the first declared variant when that variant is annotated    *)
(* #[error_kind(K, V)], and the path of the type-level annotation when it  *)
(* is annotated #[error_kind(transparent)], whatever the later variants    *)
(* and (for a direct first variant) the type-level annotation name.  An    *)
(* enum with no variants is rejected.                                      *)

\* the path written in the type-level annotation
KindReference(d) == Sole(d.attrs).nested[1].ident

\* C7: the return type is the K of the first variant when it is direct, the path of
\* the type-level annotation when it is transparent; no variants, no method
C7_ReturnType ==
    \A k \in Returned :
        LET vs == crate[k].variants
        IN  /\ Len(vs) = 0 => out[k].status = "panic"
            /\ out[k].status = "ok"
               => /\ AnnotatedDirect(vs[1])
                     => out[k].expanded[1].kind_enum = DirectK(vs[1])
                  /\ AnnotatedTransparent(vs[1])
                     => out[k].expanded[1].kind_enum = KindReference(crate[k])

\* the first variant names Other, the type and the second variant ErrorKind
C7_Witness ==
    /\ pc = "done"
    /\ Len(crate[1].variants) = 2
    /\ KindReference(crate[1]) = "ErrorKind"
    /\ crate[1].variants[1].attrs = <<Direct("Other", "InvalidInput")>>
    /\ crate[1].variants[2].attrs = <<Direct("ErrorKind", "NotFound")>>
    /\ out[1].status = "ok"
    /\ out[1].expanded[1].kind_enum = "Other"

----------------------------------------------------------------------------
(* C8.  A variant whose annotation has exactly one argument that is not    *)
(* the identifier transparent.  As claimed: whatever the argument is, the  *)
(* reader raises no error, adds no plan entry and goes on to the next      *)
(* variant.  As amended: that holds when the argument is a path; when it   *)
(* is a literal or a nested list, the reader panics with                   *)
(* "Invalid value for #[error_kind]".                                      *)

\* the loop is about to read a variant with such an annotation
ReadsOneOther ==
    /\ pc = "loop"
    /\ i <= Len(variants)
    /\ AnnotatedOneOther(variants[i])

\* the step drops the variant without a word
Dropped ==
    /\ pc' = "loop"
    /\ i' = i + 1
    /\ kind_variants' = kind_variants
    /\ out' = out

\* C8 as claimed: any single argument other than transparent is dropped silently
C8_Original == [][ReadsOneOther => Dropped]_vars

\* C8 as amended: a single path other than transparent is dropped silently, a
\* single argument that is not a path makes the reader panic
C8_SilentDrop ==
    [][ReadsOneOther =>
          IF Sole(variants[i].attrs).nested[1].nm = "Path"
          THEN Dropped
          ELSE /\ out' = Append(out, Aborted("Invalid value for #[error_kind]"))
               /\ kind_variants' = kind_variants]_vars

\* generation succeeded although the first variant was dropped: the only arm
\* is the one of the second variant
C8_Witness ==
    /\ pc = "done"
    /\ Len(crate[1].variants) = 2
    /\ AnnotatedOtherPath(crate[1].variants[1])
    /\ AnnotatedDirect(crate[1].variants[2])
    /\ out[1].status = "ok"
    /\ Len(out[1].expanded[1].match_arms) = 1
    /\ out[1].expanded[1].match_arms[1].ident = 2

----------------------------------------------------------------------------
(* C9.  Whether generation succeeds is decided by the annotations alone,   *)
(* never by the shape of a variant.  A variant annotated                   *)
(* #[error_kind(transparent)] gets its arm whatever its shape: with        *)
(* unnamed fields, of any count, the arm `Self::V(inner) => inner.kind()`; *)
(* as a unit or with named fields, the pattern of a direct arm and the     *)
(* path `K::` with no variant.  The arm is well-formed exactly when the    *)
(* variant has one unnamed field.                                          *)

\* the annotations the reader accepts, and those that give a plan entry
Readable(v) == AnnotatedDirect(v) \/ AnnotatedTransparent(v) \/ AnnotatedOtherPath(v)
Planned(v) == AnnotatedDirect(v) \/ AnnotatedTransparent(v)

\* C9: success depends on the annotations only; a transparent variant gets the arm
\* of its shape, well-formed exactly for one unnamed field
C9_AnyShape ==
    \A k \in Returned :
        LET vs == crate[k].variants
        IN  /\ out[k].status = "ok"
               <=> /\ \A j \in 1..Len(vs) : Readable(vs[j])
                   /\ \E j \in 1..Len(vs) : Planned(vs[j])
            /\ out[k].status = "ok"
               => \A j \in 1..Len(vs) :
                     AnnotatedTransparent(vs[j])
                     => LET arms == out[k].expanded[1].match_arms
                            hits == {n \in 1..Len(arms) : arms[n].ident = vs[j].ident}
                            arm == arms[CHOOSE n \in hits : TRUE]
                            fields == vs[j].fields
                        IN  /\ Cardinality(hits) = 1
                            /\ fields.shape = "Unnamed" => arm = InnerArm(vs[j].ident)
                            /\ fields.shape = "Unit"
                               => arm = PathArm(vs[j].ident, "Self::#ident",
                                                KindReference(crate[k]), None)
                            /\ fields.shape = "Named"
                               => arm = PathArm(vs[j].ident, "Self::#ident{..}",
                                                KindReference(crate[k]), None)
                            /\ (ArmFits(arm, fields) /\ ExprParses(arm))
                               <=> (fields.shape = "Unnamed" /\ Len(fields.tys) = 1)

\* a transparent unit variant and a transparent variant of two unnamed fields
C9_Witness ==
    /\ pc = "done"
    /\ Len(crate[1].variants) = 2
    /\ \A j \in 1..2 : AnnotatedTransparent(crate[1].variants[j])
    /\ crate[1].variants[1].fields = Unit
    /\ crate[1].variants[2].fields = Unnamed(<<"String", "String">>)
    /\ out[1].status = "ok"
    /\ Len(out[1].expanded[1].match_arms) = 2

----------------------------------------------------------------------------
(* C10.  A variant with more than one error_kind annotation: the first one *)
(* in attachment order alone decides what the reader does with the         *)
(* variant, the later ones are ignored even when malformed or              *)
(* contradicting the first, and the variant gives at most one plan entry.  *)

\* the loop is about to read a variant with several error_kind annotations
ReadsSeveral ==
    /\ pc = "loop"
    /\ i <= Len(variants)
    /\ Cardinality(Family(variants[i].attrs)) >= 2

\* the first error_kind annotation of the variant being read
FirstAnnotation ==
    LET attrs == variants[i].attrs
    IN  attrs[CHOOSE n \in Family(attrs) : \A m \in Family(attrs) : n <= m]

\* C10: of several error_kind annotations on a variant the first alone is read, and
\* the variant gives at most one plan entry
C10_FirstAnnotation ==
    [][ReadsSeveral =>
          /\ Len(kind_variants') <= Len(kind_variants) + 1
          /\ (IsList(FirstAnnotation, 2) /\ FirstAnnotation.nested[1].nm = "Path"
                                         /\ FirstAnnotation.nested[2].nm = "Path")
             => /\ pc' = "loop"
                /\ kind_variants' =
                      Append(kind_variants,
                             Entry(variants[i].ident, FirstAnnotation.nested[1].ident,
                                   Some(FirstAnnotation.nested[2].ident)))
          /\ FirstAnnotation = Transparent
             => /\ pc' = "loop"
                /\ kind_variants' =
                      Append(kind_variants, Entry(variants[i].ident, kind_ty, None))
          /\ IsList(FirstAnnotation, 0)
             => /\ out' = Append(out, Aborted("error_kind must have one two arguments"))
                /\ kind_variants' = kind_variants]_vars

\* #[error_kind(ErrorKind, NotFound)] #[error_kind()] on the first variant,
\* read as the former
C10_Witness ==
    /\ pc = "loop"
    /\ i = 2
    /\ crate[1].variants[1].attrs = <<Direct("ErrorKind", "NotFound"), ErrorKindAttr(<<>>)>>
    /\ kind_variants = <<Entry(1, "ErrorKind", Some("NotFound"))>>

====
